---- MODULE Spec2Model ----
(***************************************************************************)
(* Model of odl/discr/discretization.py: the abstract DiscretizedSpace,    *)
(* its element wrapper DiscretizedSpaceElement and the backend selector    *)
(* tspace_type.                                                            *)
(*                                                                         *)
(* Three specifications share the variables:                               *)
(*   SelSpec   - tspace_type applied to every template space, backend      *)
(*               name, dtype and registry content;                         *)
(*   SpaceSpec - construction, equality and hash of DiscretizedSpaces;      *)
(*   Spec      - the operations on the elements of constructed spaces.     *)
(***************************************************************************)
EXTENDS Integers, Sequences, FiniteSets, TLC

VARIABLES sel, spaces, ctor, tensors, elems, gens, last

vars == <<sel, spaces, ctor, tensors, elems, gens, last>>

(***************************************************************************)
(* Backend selector: tspace_type(space, impl, dtype)                       *)
(***************************************************************************)

\* Values of the template space's `field` attribute: the attribute is
\* missing, it is None, or it is an instance of the named class.
Fields == {"absent", "None", "RealNumbers", "ComplexNumbers"}

\* Scalar types handed in as `dtype`; "None" is Python's None.
DTypes == {"None", "float32", "float64", "complex64", "complex128",
           "int32", "uint8", "bool", "str"}

\* Backend names handed in as `impl`.
ImplNames == {"numpy", "cuda", "nosuch"}

is_real_floating_dtype(dtype) == dtype \in {"float32", "float64"}

is_complex_floating_dtype(dtype) == dtype \in {"complex64", "complex128"}

is_numeric_dtype(dtype) ==
    dtype \in {"float32", "float64", "complex64", "complex128", "int32", "uint8"}

\* tensor_space_impl(impl): the registered type, or ValueError.
tensor_space_impl(registry, impl) ==
    IF impl \in registry
    THEN [kind |-> "return", type |-> impl]
    ELSE [kind |-> "ValueError", type |-> "-"]

\* type(getattr(space, 'field', None)): the class of the field; a missing
\* field and a field of None both give the class NoneType, never None.
field_type(field) ==
    IF field \in {"absent", "None"} THEN "NoneType" ELSE field

\* try: return tensor_space_impl(impl) / except ValueError: raise
\* NotImplementedError
lookup(registry, impl) ==
    LET r == tensor_space_impl(registry, impl)
    IN  IF r.kind = "ValueError"
        THEN [kind |-> "NotImplementedError", type |-> "-"]
        ELSE r

TypeErr == [kind |-> "TypeError", type |-> "-"]

\* Mutant: the registry is consulted before the field/dtype validation.
tspace_type_lookup_first(field, registry, impl, dtype) ==
    LET ft == field_type(field)
        r  == lookup(registry, impl)
    IN  IF r.kind # "return" THEN r
        ELSE IF dtype = "None" THEN r
        ELSE IF is_real_floating_dtype(dtype)
             THEN IF ft = "None" \/ ft = "ComplexNumbers" THEN TypeErr ELSE r
        ELSE IF is_complex_floating_dtype(dtype)
             THEN IF ft = "None" \/ ft = "RealNumbers" THEN TypeErr ELSE r
        ELSE IF is_numeric_dtype(dtype)
             THEN IF ft = "ComplexNumbers" THEN TypeErr ELSE r
        ELSE r

tspace_type(field, registry, impl, dtype) ==
    LET ft == field_type(field)
    IN  IF dtype = "None" THEN lookup(registry, impl)
        ELSE IF is_real_floating_dtype(dtype)
             THEN IF ft = "None" \/ ft = "ComplexNumbers"
                  THEN TypeErr ELSE lookup(registry, impl)
        ELSE IF is_complex_floating_dtype(dtype)
             THEN IF ft = "None" \/ ft = "RealNumbers"
                  THEN TypeErr ELSE lookup(registry, impl)
        ELSE IF is_numeric_dtype(dtype)
             THEN IF ft = "ComplexNumbers"
                  THEN TypeErr ELSE lookup(registry, impl)
        ELSE lookup(registry, impl)

Pending == [kind |-> "pending", type |-> "-"]

NoSel == [field |-> "absent", registry |-> {}, impl |-> "nosuch",
          dtype |-> "None", out |-> Pending]

HeapIdle ==
    /\ spaces = <<>>
    /\ ctor = <<>>
    /\ tensors = <<>>
    /\ elems = <<>>
    /\ gens = <<>>
    /\ last = [op |-> "none"]

SelInit ==
    /\ \E f \in Fields, reg \in SUBSET ImplNames, i \in ImplNames, d \in DTypes :
          sel = [field |-> f, registry |-> reg, impl |-> i, dtype |-> d,
                 out |-> Pending]
    /\ HeapIdle

SelCall ==
    /\ sel.out = Pending
    /\ sel' = [sel EXCEPT !.out = tspace_type(sel.field, sel.registry,
                                              sel.impl, sel.dtype)]
    /\ UNCHANGED <<spaces, ctor, tensors, elems, gens, last>>

SelNext == SelCall

SelSpec == SelInit /\ [][SelNext]_vars

SelCalled == sel.out # Pending

\* C1 (as claimed): with a template space that exposes no field, a real- or
\* complex-floating dtype is rejected with a type error whatever the backend
\* name, and a numeric non-floating dtype is not rejected with a type error.
C1_NoFieldRejectsFloating ==
    (SelCalled /\ sel.field \in {"absent", "None"}) =>
        /\ (is_real_floating_dtype(sel.dtype)
              \/ is_complex_floating_dtype(sel.dtype))
             => sel.out.kind = "TypeError"
        /\ (is_numeric_dtype(sel.dtype)
              /\ ~is_real_floating_dtype(sel.dtype)
              /\ ~is_complex_floating_dtype(sel.dtype))
             => sel.out.kind # "TypeError"

\* The outcome C2 describes for a space with a real or complex field.
C2_Expected(field, registry, impl, dtype) ==
    IF \/ (dtype \in {"float32", "float64"} /\ field = "ComplexNumbers")
       \/ (dtype \in {"complex64", "complex128"} /\ field = "RealNumbers")
       \/ (dtype \in {"int32", "uint8"} /\ field = "ComplexNumbers")
    THEN "TypeError"
    ELSE IF impl \in registry THEN "return" ELSE "NotImplementedError"

\* C2: for a template space whose field is RealNumbers or ComplexNumbers the
\* call raises a type error exactly on the three field/dtype mismatches,
\* registered backend or not; otherwise (dtype None included) it returns the
\* registry's type for a registered backend and raises a not-implemented
\* error for an unregistered one.
C2_FieldedOutcome ==
    (SelCalled /\ sel.field \in {"RealNumbers", "ComplexNumbers"}) =>
        /\ sel.out.kind =
             C2_Expected(sel.field, sel.registry, sel.impl, sel.dtype)
        /\ sel.out.kind = "return" => sel.out.type = sel.impl

\* A mismatching dtype was rejected although the backend is unregistered.
C2_Witness ==
    /\ SelCalled
    /\ sel.field = "RealNumbers"
    /\ sel.dtype = "complex128"
    /\ sel.impl \notin sel.registry
    /\ sel.out.kind = "TypeError"

(***************************************************************************)
(* DiscretizedSpace: construction, equality, hash                          *)
(***************************************************************************)

\* Number of DiscretizedSpace objects alive at once.
MaxSpaces == 2

\* The classes a space object can have: the abstract base class itself and
\* a subclass that overrides element() and calls the base __init__.
Classes == {"DiscretizedSpace", "Subclass"}

\* Objects handed in as `fspace`.  F1 and F2 are distinct objects that
\* compare equal, F3 is a different set, FX is no Set instance.
F1 == [id |-> "F1", cls |-> "Set", val |-> "L2"]

F2 == [id |-> "F2", cls |-> "Set", val |-> "L2"]

F3 == [id |-> "F3", cls |-> "Set", val |-> "H1"]

FX == [id |-> "X", cls |-> "object", val |-> "-"]

FArgs == {F1, F2, F3, FX}

\* Objects handed in as `tspace`.  T1 and T2 are distinct objects that
\* compare equal, T3 is another tensor space whose tensor class inherits
\* the generic in-place power, T4 differs from T1 in its backend only, TX
\* is no TensorSpace instance.
T1 == [id |-> <<"T1">>, cls |-> "TensorSpace", shape |-> <<1>>,
       dtype |-> "float64", impl |-> "numpy", ipow |-> "specialized"]

T2 == [id |-> <<"T2">>, cls |-> "TensorSpace", shape |-> <<1>>,
       dtype |-> "float64", impl |-> "numpy", ipow |-> "specialized"]

T3 == [id |-> <<"T3">>, cls |-> "TensorSpace", shape |-> <<2>>,
       dtype |-> "float32", impl |-> "generic", ipow |-> "inherited"]

T4 == [id |-> <<"T4">>, cls |-> "TensorSpace", shape |-> <<1>>,
       dtype |-> "float64", impl |-> "cuda", ipow |-> "specialized"]

TX == [id |-> <<"X">>, cls |-> "object", shape |-> <<>>,
       dtype |-> "-", impl |-> "-", ipow |-> "-"]

TArgs == {T1, T2, T3, T4, TX}

\* isinstance(fspace, Set) and isinstance(tspace, TensorSpace)
IsSet(f) == f.cls = "Set"

IsTensorSpace(t) == t.cls = "TensorSpace"

\* Set.__eq__ / __hash__ and TensorSpace.__eq__ / __hash__ of the
\* collaborators: by value, not by identity.
FEq(f, g) == f.val = g.val

FHash(f) == f.val

TEq(t, u) == t.shape = u.shape /\ t.dtype = u.dtype /\ t.impl = u.impl

THash(t) == <<t.shape, t.dtype, t.impl>>

NoObj == [cls |-> "-", shape |-> <<>>, dtype |-> "-",
          fspace |-> "-", tspace |-> "-"]

\* Mutant: the isinstance check of tspace is missing.
DS_init_no_tspace_check(cls, fspace, tspace) ==
    IF ~IsSet(fspace)
    THEN [err |-> "TypeError", arg |-> "fspace", obj |-> NoObj]
    ELSE [err |-> "none", arg |-> "-",
          obj |-> [cls |-> cls, shape |-> tspace.shape, dtype |-> tspace.dtype,
                   fspace |-> fspace, tspace |-> tspace]]

\* DiscretizedSpace.__init__(self, fspace, tspace) on an object of class cls
DS_init(cls, fspace, tspace) ==
    IF ~IsSet(fspace)
    THEN [err |-> "TypeError", arg |-> "fspace", obj |-> NoObj]
    ELSE IF ~IsTensorSpace(tspace)
    THEN [err |-> "TypeError", arg |-> "tspace", obj |-> NoObj]
    ELSE [err |-> "none", arg |-> "-",
          obj |-> [cls |-> cls, shape |-> tspace.shape, dtype |-> tspace.dtype,
                   fspace |-> fspace, tspace |-> tspace]]

\* TensorSpace.__eq__(self, other) of the base class, on two space objects
Base_eq(a, b) == a.cls = b.cls /\ a.shape = b.shape /\ a.dtype = b.dtype

\* TensorSpace.__hash__(self) of the base class
Base_hash(a) == <<a.cls, a.shape, a.dtype>>

\* Values compared with a space: a space object of the heap, None, or an
\* object that is no space at all.
Others(n) ==
    {[kind |-> "space", id |-> i] : i \in 1..n}
        \cup {[kind |-> "None", id |-> 0], [kind |-> "object", id |-> 0]}

\* Mutant: the tspace values are left out of the comparison.
DS_eq_no_tspace(heap, self, other) ==
    IF other.kind = "space" /\ other.id = self THEN "True"
    ELSE IF other.kind = "None" THEN "False"
    ELSE IF other.kind # "space" THEN "False"
    ELSE IF /\ Base_eq(heap[self], heap[other.id])
            /\ FEq(heap[other.id].fspace, heap[self].fspace)
         THEN "True" ELSE "False"

\* DiscretizedSpace.__eq__(self, other); heap is the sequence of space
\* objects, self an index into it
DS_eq(heap, self, other) ==
    IF other.kind = "space" /\ other.id = self THEN "True"
    ELSE IF other.kind = "None" THEN "False"
    ELSE IF other.kind # "space" THEN "False"
    ELSE IF /\ Base_eq(heap[self], heap[other.id])
            /\ FEq(heap[other.id].fspace, heap[self].fspace)
            /\ TEq(heap[other.id].tspace, heap[self].tspace)
         THEN "True" ELSE "False"

\* DiscretizedSpace.__hash__(self)
DS_hash(heap, self) ==
    <<Base_hash(heap[self]), FHash(heap[self].fspace), THash(heap[self].tspace)>>

SpaceInit ==
    /\ sel = NoSel
    /\ HeapIdle

\* cls(fspace, tspace): allocate an object and run __init__ on it
Construct(cls, f, t) ==
    /\ Len(spaces) < MaxSpaces
    /\ LET r == DS_init(cls, f, t)
       IN  /\ spaces' = IF r.err = "none" THEN Append(spaces, r.obj) ELSE spaces
           /\ ctor' = IF r.err = "none"
                      THEN Append(ctor, [fspace |-> f, tspace |-> t])
                      ELSE ctor
           /\ last' = [op |-> "init", cls |-> cls, fspace |-> f, tspace |-> t,
                       before |-> Len(spaces), err |-> r.err, arg |-> r.arg]
    /\ UNCHANGED <<sel, tensors, elems, gens>>

\* self == other on a space
SpaceEq(a, other) ==
    /\ a \in 1..Len(spaces)
    /\ last' = [op |-> "space_eq", self |-> a, other |-> other,
                ret |-> DS_eq(spaces, a, other)]
    /\ UNCHANGED <<sel, spaces, ctor, tensors, elems, gens>>

\* hash(self) on a space
SpaceHash(a) ==
    /\ a \in 1..Len(spaces)
    /\ last' = [op |-> "space_hash", self |-> a, ret |-> DS_hash(spaces, a)]
    /\ UNCHANGED <<sel, spaces, ctor, tensors, elems, gens>>

SpaceNext ==
    \/ \E cls \in Classes, f \in FArgs, t \in TArgs : Construct(cls, f, t)
    \/ \E a \in 1..Len(spaces), o \in Others(Len(spaces)) : SpaceEq(a, o)
    \/ \E a \in 1..Len(spaces) : SpaceHash(a)

SpaceSpec == SpaceInit /\ [][SpaceNext]_vars

\* C3: construction succeeds exactly when fspace is a Set and tspace is a
\* TensorSpace; the new space then has tspace's shape and dtype and holds
\* the very fspace and tspace objects handed in; otherwise it fails with a
\* type error that names fspace when fspace is no Set (that check is first)
\* and tspace otherwise, and no space object is added.
C3_Construction ==
    last.op = "init" =>
        /\ last.err = "none" <=> (IsSet(last.fspace) /\ IsTensorSpace(last.tspace))
        /\ last.err = "none" =>
             /\ Len(spaces) = last.before + 1
             /\ spaces[Len(spaces)].shape = last.tspace.shape
             /\ spaces[Len(spaces)].dtype = last.tspace.dtype
             /\ spaces[Len(spaces)].fspace = last.fspace
             /\ spaces[Len(spaces)].tspace = last.tspace
             /\ spaces[Len(spaces)].cls = last.cls
        /\ last.err # "none" =>
             /\ last.err = "TypeError"
             /\ last.arg = (IF ~IsSet(last.fspace) THEN "fspace" ELSE "tspace")
             /\ Len(spaces) = last.before

\* A construction with a valid fspace and an invalid tspace was rejected
\* after an earlier one had succeeded.
C3_Witness ==
    /\ last.op = "init"
    /\ IsSet(last.fspace) /\ ~IsTensorSpace(last.tspace)
    /\ last.err = "TypeError"
    /\ Len(spaces) = 1

\* C4: space equality is reflexive and symmetric, is False against None,
\* holds exactly when the base-space equality holds and the fspace values
\* and the tspace values are equal, and equal spaces have equal hashes.
C4_EqualityHash ==
    \A a \in 1..Len(spaces) :
        /\ DS_eq(spaces, a, [kind |-> "space", id |-> a]) = "True"
        /\ DS_eq(spaces, a, [kind |-> "None", id |-> 0]) = "False"
        /\ \A b \in 1..Len(spaces) :
              LET ab == DS_eq(spaces, a, [kind |-> "space", id |-> b])
                  ba == DS_eq(spaces, b, [kind |-> "space", id |-> a])
              IN  /\ ab = ba
                  /\ ab \in {"True", "False"}
                  /\ ab = "True" <=>
                        /\ Base_eq(spaces[a], spaces[b])
                        /\ spaces[a].fspace.val = spaces[b].fspace.val
                        /\ spaces[a].tspace.shape = spaces[b].tspace.shape
                        /\ spaces[a].tspace.dtype = spaces[b].tspace.dtype
                        /\ spaces[a].tspace.impl = spaces[b].tspace.impl
                  /\ ab = "True" => DS_hash(spaces, a) = DS_hash(spaces, b)

\* Two distinct space objects built from distinct but equal fspace and
\* tspace objects were compared and found equal.
C4_Witness ==
    /\ last.op = "space_eq"
    /\ last.other.kind = "space"
    /\ last.other.id # last.self
    /\ spaces[last.self].fspace.id # spaces[last.other.id].fspace.id
    /\ spaces[last.self].tspace.id # spaces[last.other.id].tspace.id
    /\ last.ret = "True"

(***************************************************************************)
(* Storage of the tensor space (the collaborator behind tspace)            *)
(***************************************************************************)

\* Entries of a storage handle are 0..MaxVal; MaxVal stands for every value
\* too large to represent (arithmetic saturates there, as floats do at inf).
MaxVal == 2

Val == 0..MaxVal

Sat(n) == IF n > MaxVal THEN MaxVal ELSE IF n < 0 THEN 0 ELSE n

Size(t) == t.shape[1]

\* tspace.zero() and tspace.one()
TS_zero(t) == [tspace |-> t, data |-> [i \in 1..Size(t) |-> 0]]

TS_one(t) == [tspace |-> t, data |-> [i \in 1..Size(t) |-> 1]]

\* Scalar types a space is retargeted to; "struct" is a dtype with a shape.
AsDTypes == {"float32", "float64", "struct"}

\* tspace.astype(dtype): the space itself when the dtype is its own,
\* otherwise a new tensor space of that dtype
TS_astype(t, d) ==
    IF d = t.dtype THEN t ELSE [t EXCEPT !.id = Append(t.id, d), !.dtype = d]

\* tensor.copy() and tensor.astype(dtype): the content of a new handle
T_copy(x) == x

T_astype(x, d) == [tspace |-> TS_astype(x.tspace, d), data |-> x.data]

\* tensor == other_tensor
T_eq(x, y) == TEq(x.tspace, y.tspace) /\ x.data = y.data

RECURSIVE SumTo(_, _)
SumTo(f, n) == IF n = 0 THEN 0 ELSE f[n] + SumTo(f, n - 1)

AbsDiff(a, b) == IF a > b THEN a - b ELSE b - a

Quot(a, b) == IF b = 0 THEN MaxVal ELSE a \div b

\* The raw primitives of the tensor space, on storage contents
TS_lincomb(a, x1, b, x2) ==
    [i \in 1..Len(x1) |-> Sat(a * x1[i] + b * x2[i])]

TS_dist(x1, x2) ==
    Sat(SumTo([i \in 1..Len(x1) |-> AbsDiff(x1[i], x2[i])], Len(x1)))

TS_norm(x) == Sat(SumTo(x, Len(x)))

TS_inner(x1, x2) ==
    Sat(SumTo([i \in 1..Len(x1) |-> x1[i] * x2[i]], Len(x1)))

TS_multiply(x1, x2) == [i \in 1..Len(x1) |-> Sat(x1[i] * x2[i])]

TS_divide(x1, x2) == [i \in 1..Len(x1) |-> Sat(Quot(x1[i], x2[i]))]

\* Exponents of the in-place power, as twice their value: 0, 1/2, 1, 2.
Exps2 == {0, 1, 2, 4}

IsIntExp(p2) == p2 % 2 = 0

RECURSIVE IntPow(_, _)
IntPow(v, n) == IF n = 0 THEN 1 ELSE Sat(v * IntPow(v, n - 1))

\* Largest r with r * r <= v; the unrepresentably large stays so.
RECURSIVE Root(_, _)
Root(v, r) == IF (r + 1) * (r + 1) > v THEN r ELSE Root(v, r + 1)

SqrtVal(v) == IF v = MaxVal THEN MaxVal ELSE Root(v, 0)

\* LinearSpaceElement.__ipow__: the generic in-place power of the base
\* algebra layer, by repeated multiplication, for integer p only
Generic_ipow(data, p2) ==
    IF ~IsIntExp(p2)
    THEN [err |-> "ValueError", data |-> data]
    ELSE [err |-> "none",
          data |-> [i \in 1..Len(data) |-> IntPow(data[i], p2 \div 2)]]

\* The in-place power of a tensor class that specializes it: any exponent
Special_ipow(data, p2) ==
    [err |-> "none",
     data |-> [i \in 1..Len(data) |->
                 IF IsIntExp(p2) THEN IntPow(data[i], p2 \div 2)
                 ELSE SqrtVal(IntPow(data[i], p2))]]

\* tensor.__ipow__(p): method resolution on the tensor's class
T_ipow(x, p2) ==
    IF x.tspace.ipow = "specialized"
    THEN Special_ipow(x.data, p2)
    ELSE Generic_ipow(x.data, p2)

\* Index arguments of tensor.__setitem__: an integer position (0-based),
\* the full slice, or a tensor of positions.
\* The positions (1-based) an index addresses, {} with err when out of range
Positions(size, idx) ==
    IF idx.k = "int"
    THEN IF idx.i < size THEN {idx.i + 1} ELSE {}
    ELSE IF idx.k = "slice" THEN 1..size
    ELSE IF \A k \in 1..Len(idx.data) : idx.data[k] < size
         THEN {idx.data[k] + 1 : k \in 1..Len(idx.data)} ELSE {}

\* tensor.__setitem__(indices, values): values is a scalar or the content
\* of another handle, broadcast to the addressed range
T_setitem(data, idx, values) ==
    LET pos == Positions(Len(data), idx)
        n   == IF idx.k = "tensor" THEN Len(idx.data) ELSE Cardinality(pos)
    IN  IF pos = {} THEN [err |-> "IndexError", data |-> data]
        ELSE IF values.k = "scalar"
        THEN [err |-> "none",
              data |-> [i \in 1..Len(data) |->
                          IF i \in pos THEN values.v ELSE data[i]]]
        ELSE IF Len(values.data) = 1
        THEN [err |-> "none",
              data |-> [i \in 1..Len(data) |->
                          IF i \in pos THEN values.data[1] ELSE data[i]]]
        ELSE IF Len(values.data) # n \/ idx.k = "int"
        THEN [err |-> "ValueError", data |-> data]
        ELSE IF idx.k = "slice"
        THEN [err |-> "none", data |-> values.data]
        ELSE [err |-> "none",
              data |-> [i \in 1..Len(data) |->
                          IF i \in pos
                          THEN values.data[
                                 CHOOSE k \in 1..n :
                                   /\ idx.data[k] + 1 = i
                                   /\ \A m \in (k + 1)..n : idx.data[m] + 1 # i]
                          ELSE data[i]]]

(***************************************************************************)
(* DiscretizedSpace and DiscretizedSpaceElement: operations on the heap    *)
(* of spaces sp, storage handles ts and elements es                        *)
(***************************************************************************)

\* Number of element objects alive at once.
MaxElems == 2

\* Number of examples generators alive at once.
MaxGens == 2

\* Outcome of an operation: the error raised (or "none"), the heap it
\* leaves and the value returned.
Res(err, sp, ts, es, ret) ==
    [err |-> err, spaces |-> sp, tensors |-> ts, elems |-> es, ret |-> ret]

\* DiscretizedSpaceElement.__init__(self, space, tensor): a new element
\* object holding the space and the handle it was given (src records the
\* element it was copied from, 0 for none)
DSE_init(sp, ts, es, s, h) ==
    Res("none", sp, ts, Append(es, [space |-> s, tensor |-> h, src |-> 0]), Len(es) + 1)

\* fspace.examples: the named example functions of the abstract set, each
\* standing for the value its discretization samples
Examples(f) ==
    IF f.val = "L2"
    THEN <<[name |-> "Linear", v |-> 1], [name |-> "Step", v |-> 2]>>
    ELSE <<[name |-> "Gaussian", v |-> 1]>>

\* element(inp) as a subclass implements it: a tensor of the space is
\* wrapped as it is, a function is sampled into a new handle
Subclass_element(sp, ts, es, s, inp) ==
    IF inp.k = "tensor"
    THEN DSE_init(sp, ts, es, s, inp.h)
    ELSE DSE_init(sp,
                  Append(ts, [tspace |-> sp[s].tspace,
                              data |-> [i \in 1..Size(sp[s].tspace) |-> inp.v]]),
                  es, s, Len(ts) + 1)

\* DiscretizedSpace.element(self, inp): abstract in the base class
DS_element(sp, ts, es, s, inp) ==
    IF sp[s].cls = "DiscretizedSpace"
    THEN Res("NotImplementedError", sp, ts, es, 0)
    ELSE Subclass_element(sp, ts, es, s, inp)

\* Mutant: zero() goes through element(), which validates its input.
DS_zero_via_element(sp, ts, es, s) ==
    DS_element(sp, Append(ts, TS_zero(sp[s].tspace)), es, s,
               [k |-> "tensor", h |-> Len(ts) + 1])

\* DiscretizedSpace.zero(self)
DS_zero(sp, ts, es, s) ==
    DSE_init(sp, Append(ts, TS_zero(sp[s].tspace)), es, s, Len(ts) + 1)

\* DiscretizedSpace.one(self)
DS_one(sp, ts, es, s) ==
    DSE_init(sp, Append(ts, TS_one(sp[s].tspace)), es, s, Len(ts) + 1)

\* Mutant: the storage handle is handed on without being copied.
DSE_copy_shared(sp, ts, es, e) ==
    DS_element(sp, ts, es, es[e].space, [k |-> "tensor", h |-> es[e].tensor])

\* DiscretizedSpaceElement.copy(self)
DSE_copy(sp, ts, es, e) ==
    DS_element(sp, Append(ts, T_copy(ts[es[e].tensor])), es, es[e].space,
               [k |-> "tensor", h |-> Len(ts) + 1])

\* TensorSpace.astype(dtype) on a discretized space: the space itself for
\* its own dtype, otherwise a new space of the same class over the
\* retargeted tspace; a dtype with a shape is rejected
Space_astype(sp, s, d) ==
    IF d = "struct" THEN [err |-> "TypeError", spaces |-> sp, ret |-> 0]
    ELSE IF d = sp[s].dtype THEN [err |-> "none", spaces |-> sp, ret |-> s]
    ELSE LET r == DS_init(sp[s].cls, sp[s].fspace, TS_astype(sp[s].tspace, d))
         IN  [err |-> r.err, spaces |-> Append(sp, r.obj), ret |-> Len(sp) + 1]

\* Mutant: the element's own space is retargeted in place.
DSE_astype_in_place(sp, ts, es, e, d) ==
    IF d = "struct" THEN Res("TypeError", sp, ts, es, 0)
    ELSE DS_element([sp EXCEPT ![es[e].space].dtype = d],
                    Append(ts, T_astype(ts[es[e].tensor], d)), es, es[e].space,
                    [k |-> "tensor", h |-> Len(ts) + 1])

\* DiscretizedSpaceElement.astype(self, dtype)
DSE_astype(sp, ts, es, e, d) ==
    LET a == Space_astype(sp, es[e].space, d)
    IN  IF a.err # "none" THEN Res(a.err, sp, ts, es, 0)
        ELSE LET r == DS_element(a.spaces,
                                 Append(ts, T_astype(ts[es[e].tensor], d)),
                                 es, a.ret, [k |-> "tensor", h |-> Len(ts) + 1])
             IN  IF r.err # "none" THEN Res(r.err, sp, ts, es, 0) ELSE r

\* Values an element is compared with: an element of the heap, None, or
\* an object that has neither a space nor a tensor.
ElemOthers(n) ==
    {[kind |-> "elem", id |-> i] : i \in 1..n}
        \cup {[kind |-> "None", id |-> 0], [kind |-> "object", id |-> 0]}

\* other in space (TensorSpace.__contains__): other has a space and that
\* space equals this one
Contains(sp, es, s, other) ==
    /\ other.kind = "elem"
    /\ DS_eq(sp, es[other.id].space, [kind |-> "space", id |-> s]) = "True"

\* Mutant: the storage handles are compared before the membership test.
DSE_eq_tensor_first(sp, ts, es, e, other) ==
    IF other.kind # "elem"
    THEN [ret |-> "AttributeError", compared |-> FALSE]
    ELSE [ret |-> IF /\ T_eq(ts[es[e].tensor], ts[es[other.id].tensor])
                     /\ Contains(sp, es, es[e].space, other)
                  THEN "True" ELSE "False",
          compared |-> TRUE]

\* DiscretizedSpaceElement.__eq__(self, other); compared tells whether
\* self.tensor == other.tensor was evaluated
DSE_eq(sp, ts, es, e, other) ==
    IF ~Contains(sp, es, es[e].space, other)
    THEN [ret |-> "False", compared |-> FALSE]
    ELSE [ret |-> IF T_eq(ts[es[e].tensor], ts[es[other.id].tensor])
                  THEN "True" ELSE "False",
          compared |-> TRUE]

\* Arguments of __setitem__: an index or value that is an element is
\* unwrapped to the content of its storage handle
Unwrap_index(ts, es, indices) ==
    IF indices.k = "elem"
    THEN [k |-> "tensor", i |-> 0, data |-> ts[es[indices.e].tensor].data]
    ELSE [k |-> indices.k, i |-> indices.i, data |-> <<>>]

Unwrap_values(ts, es, values) ==
    IF values.k = "elem"
    THEN [k |-> "tensor", v |-> 0, data |-> ts[es[values.e].tensor].data]
    ELSE [k |-> "scalar", v |-> values.v, data |-> <<>>]

\* DiscretizedSpaceElement.__setitem__(self, indices, values)
DSE_setitem(sp, ts, es, e, indices, values) ==
    LET r == T_setitem(ts[es[e].tensor].data, Unwrap_index(ts, es, indices),
                       Unwrap_values(ts, es, values))
    IN  Res(r.err, sp, [ts EXCEPT ![es[e].tensor].data = r.data], es, 0)

\* Mutant: the generic in-place power of the base algebra layer is used
\* whatever the storage handle provides.
DSE_ipow_generic(sp, ts, es, e, p2) ==
    LET r == Generic_ipow(ts[es[e].tensor].data, p2)
    IN  Res(r.err, sp, [ts EXCEPT ![es[e].tensor].data = r.data], es,
            IF r.err = "none" THEN e ELSE 0)

\* DiscretizedSpaceElement.__ipow__(self, p)
DSE_ipow(sp, ts, es, e, p2) ==
    LET r == T_ipow(ts[es[e].tensor], p2)
    IN  Res(r.err, sp, [ts EXCEPT ![es[e].tensor].data = r.data], es,
            IF r.err = "none" THEN e ELSE 0)

\* DiscretizedSpace._lincomb(self, a, x1, b, x2, out)
DS_lincomb(sp, ts, es, s, a, x1, b, x2, out) ==
    Res("none", sp,
        [ts EXCEPT ![es[out].tensor].data =
            TS_lincomb(a, ts[es[x1].tensor].data, b, ts[es[x2].tensor].data)],
        es, 0)

\* DiscretizedSpace._dist(self, x1, x2)
DS_dist(sp, ts, es, s, x1, x2) ==
    Res("none", sp, ts, es,
        TS_dist(ts[es[x1].tensor].data, ts[es[x2].tensor].data))

\* DiscretizedSpace._norm(self, x)
DS_norm(sp, ts, es, s, x) ==
    Res("none", sp, ts, es, TS_norm(ts[es[x].tensor].data))

\* DiscretizedSpace._inner(self, x1, x2)
DS_inner(sp, ts, es, s, x1, x2) ==
    Res("none", sp, ts, es,
        TS_inner(ts[es[x1].tensor].data, ts[es[x2].tensor].data))

\* DiscretizedSpace._multiply(self, x1, x2, out)
DS_multiply(sp, ts, es, s, x1, x2, out) ==
    Res("none", sp,
        [ts EXCEPT ![es[out].tensor].data =
            TS_multiply(ts[es[x1].tensor].data, ts[es[x2].tensor].data)],
        es, 0)

\* DiscretizedSpace._divide(self, x1, x2, out)
DS_divide(sp, ts, es, s, x1, x2, out) ==
    Res("none", sp,
        [ts EXCEPT ![es[out].tensor].data =
            TS_divide(ts[es[x1].tensor].data, ts[es[x2].tensor].data)],
        es, 0)

\* Mutant: the first example is discretized when the property is invoked.
DS_examples_primed(sp, ts, es, s) ==
    LET ex == Examples(sp[s].fspace)
        r  == DS_element(sp, ts, es, s, [k |-> "func", v |-> ex[1].v])
    IN  [gen |-> [space |-> s, pos |-> 0, pulls |-> 0, calls |-> 1,
                  status |-> "fresh", log |-> <<>>],
         res |-> r]

\* DiscretizedSpace.examples: invoking the property creates a generator
\* that has not run yet
DS_examples(sp, ts, es, s) ==
    [gen |-> [space |-> s, pos |-> 0, pulls |-> 0, calls |-> 0,
              status |-> "fresh", log |-> <<>>],
     res |-> Res("none", sp, ts, es, 0)]

\* One pull (next) on the generator g of DiscretizedSpace.examples: the loop
\* takes the next (name, elem) of fspace.examples and yields
\* (name, self.element(elem))
Gen_next(sp, ts, es, g) ==
    LET ex == Examples(sp[g.space].fspace)
    IN  IF g.status \in {"done", "raised"}
        THEN [gen |-> g, name |-> "-", res |-> Res("StopIteration", sp, ts, es, 0)]
        ELSE IF g.pos = Len(ex)
        THEN [gen |-> [g EXCEPT !.status = "done", !.pulls = @ + 1],
              name |-> "-", res |-> Res("StopIteration", sp, ts, es, 0)]
        ELSE LET r == DS_element(sp, ts, es, g.space,
                                 [k |-> "func", v |-> ex[g.pos + 1].v])
             IN  IF r.err # "none"
                 THEN [gen |-> [g EXCEPT !.status = "raised", !.pulls = @ + 1,
                                         !.calls = @ + 1],
                       name |-> "-", res |-> r]
                 ELSE [gen |-> [g EXCEPT !.status = "suspended",
                                         !.pulls = @ + 1, !.calls = @ + 1,
                                         !.pos = @ + 1,
                                         !.log = Append(@,
                                            [name |-> ex[g.pos + 1].name,
                                             space |-> r.elems[r.ret].space,
                                             data |-> r.tensors[r.elems[r.ret].tensor].data])],
                       name |-> ex[g.pos + 1].name, res |-> r]

(***************************************************************************)
(* Spec: the operations on constructed spaces and their elements           *)
(***************************************************************************)

\* Number of spaces astype may add to the constructed ones.
MaxDerived == 1

\* Storage handles no element holds are released.
RECURSIVE Collect(_, _)
Collect(ts, es) ==
    IF ts # <<>> /\ \A e \in 1..Len(es) : es[e].tensor # Len(ts)
    THEN Collect(SubSeq(ts, 1, Len(ts) - 1), es)
    ELSE ts

\* Three spaces have been constructed: one of the base class over
\* (F3, T3), and two of a subclass over (F1, T1) and over the equal but
\* distinct objects (F2, T2).
Init ==
    /\ sel = NoSel
    /\ spaces = <<DS_init("DiscretizedSpace", F3, T3).obj,
                  DS_init("Subclass", F1, T1).obj,
                  DS_init("Subclass", F2, T2).obj>>
    /\ ctor = <<[fspace |-> F3, tspace |-> T3],
                [fspace |-> F1, tspace |-> T1],
                [fspace |-> F2, tspace |-> T2]>>
    /\ tensors = <<>>
    /\ elems = <<>>
    /\ gens = <<>>
    /\ last = [op |-> "none"]

SpaceIds == 1..Len(spaces)

ElemIds == 1..Len(elems)

Derived == {s \in SpaceIds : Len(spaces[s].tspace.id) > 1}

\* The elements the raw primitives of space s are called with: the base
\* algebra layer calls them on the space of its output (or first) argument
\* after it has checked that the others lie in that space.
ElemsIn(s) ==
    {e \in ElemIds : Contains(spaces, elems, s, [kind |-> "elem", id |-> e])}

\* Scalars of the linear combination.
Scalars == 0..1

\* The heap an operation leaves becomes the state; a space that came into
\* being is recorded with the arguments of its construction.
Commit(r) ==
    /\ spaces' = r.spaces
    /\ ctor' = IF Len(r.spaces) > Len(spaces)
               THEN Append(ctor, [fspace |-> r.spaces[Len(r.spaces)].fspace,
                                  tspace |-> r.spaces[Len(r.spaces)].tspace])
               ELSE ctor
    /\ tensors' = Collect(r.tensors, r.elems)

Zero(s) ==
    /\ Len(elems) < MaxElems
    /\ LET r == DS_zero(spaces, tensors, elems, s)
       IN  /\ Commit(r)
           /\ elems' = r.elems
           /\ last' = [op |-> "zero", self |-> s, err |-> r.err, ret |-> r.ret,
                       before |-> Len(elems)]
    /\ UNCHANGED <<sel, gens>>

One(s) ==
    /\ Len(elems) < MaxElems
    /\ LET r == DS_one(spaces, tensors, elems, s)
       IN  /\ Commit(r)
           /\ elems' = r.elems
           /\ last' = [op |-> "one", self |-> s, err |-> r.err, ret |-> r.ret,
                       before |-> Len(elems)]
    /\ UNCHANGED <<sel, gens>>

Copy(e) ==
    /\ Len(elems) < MaxElems
    /\ LET r == DSE_copy(spaces, tensors, elems, e)
       IN  /\ Commit(r)
           /\ elems' = IF r.err = "none"
                       THEN [r.elems EXCEPT ![r.ret].src = e] ELSE r.elems
           /\ last' = [op |-> "copy", self |-> e, err |-> r.err, ret |-> r.ret,
                       before |-> Len(elems)]
    /\ UNCHANGED <<sel, gens>>

Astype(e, d) ==
    /\ Len(elems) < MaxElems
    /\ Cardinality(Derived) < MaxDerived
    /\ LET r == DSE_astype(spaces, tensors, elems, e, d)
       IN  /\ Commit(r)
           /\ elems' = r.elems
           /\ last' = [op |-> "astype", self |-> e, err |-> r.err,
                       ret |-> r.ret, before |-> Len(elems)]
    /\ UNCHANGED <<sel, gens>>

ElemEq(e, other) ==
    /\ LET r == DSE_eq(spaces, tensors, elems, e, other)
       IN  last' = [op |-> "elem_eq", self |-> e, other |-> other,
                    ret |-> r.ret, compared |-> r.compared]
    /\ UNCHANGED <<sel, spaces, ctor, tensors, elems, gens>>

SetItem(e, indices, values) ==
    /\ LET r == DSE_setitem(spaces, tensors, elems, e, indices, values)
       IN  /\ Commit(r)
           /\ elems' = r.elems
           /\ last' = [op |-> "setitem", self |-> e, err |-> r.err]
    /\ UNCHANGED <<sel, gens>>

IPow(e, p2) ==
    /\ LET r == DSE_ipow(spaces, tensors, elems, e, p2)
       IN  /\ Commit(r)
           /\ elems' = r.elems
           /\ last' = [op |-> "ipow", self |-> e, p2 |-> p2, err |-> r.err,
                       ret |-> r.ret]
    /\ UNCHANGED <<sel, gens>>

Lincomb(s, a, x1, b, x2, out) ==
    /\ LET r == DS_lincomb(spaces, tensors, elems, s, a, x1, b, x2, out)
       IN  /\ Commit(r)
           /\ elems' = r.elems
           /\ last' = [op |-> "_lincomb", ret |-> out]
    /\ UNCHANGED <<sel, gens>>

Dist(s, x1, x2) ==
    /\ LET r == DS_dist(spaces, tensors, elems, s, x1, x2)
       IN  last' = [op |-> "_dist", ret |-> r.ret]
    /\ UNCHANGED <<sel, spaces, ctor, tensors, elems, gens>>

Norm(s, x) ==
    /\ LET r == DS_norm(spaces, tensors, elems, s, x)
       IN  last' = [op |-> "_norm", ret |-> r.ret]
    /\ UNCHANGED <<sel, spaces, ctor, tensors, elems, gens>>

Inner(s, x1, x2) ==
    /\ LET r == DS_inner(spaces, tensors, elems, s, x1, x2)
       IN  last' = [op |-> "_inner", ret |-> r.ret]
    /\ UNCHANGED <<sel, spaces, ctor, tensors, elems, gens>>

Multiply(s, x1, x2, out) ==
    /\ LET r == DS_multiply(spaces, tensors, elems, s, x1, x2, out)
       IN  /\ Commit(r)
           /\ elems' = r.elems
           /\ last' = [op |-> "_multiply", ret |-> out]
    /\ UNCHANGED <<sel, gens>>

Divide(s, x1, x2, out) ==
    /\ LET r == DS_divide(spaces, tensors, elems, s, x1, x2, out)
       IN  /\ Commit(r)
           /\ elems' = r.elems
           /\ last' = [op |-> "_divide", ret |-> out]
    /\ UNCHANGED <<sel, gens>>

\* next(space.examples): the property is invoked, the generator pulled
\* once and dropped
FirstExample(s) ==
    /\ Len(elems) < MaxElems
    /\ LET g == DS_examples(spaces, tensors, elems, s)
           r == Gen_next(g.res.spaces, g.res.tensors, g.res.elems, g.gen)
       IN  /\ Commit(r.res)
           /\ elems' = r.res.elems
           /\ last' = [op |-> "first_example", self |-> s, err |-> r.res.err,
                       ret |-> r.res.ret, before |-> Len(elems)]
    /\ UNCHANGED <<sel, gens>>

\* The most recently created element is released by its holders.
Release ==
    /\ elems # <<>>
    /\ elems' = SubSeq(elems, 1, Len(elems) - 1)
    /\ tensors' = Collect(tensors, elems')
    /\ last' = [op |-> "release"]
    /\ UNCHANGED <<sel, spaces, ctor, gens>>

\* self == other and hash(self) on a space; only the outcome is observed
SpaceCompared(a, other) ==
    /\ last' = [op |-> "space_eq", ret |-> DS_eq(spaces, a, other)]
    /\ UNCHANGED <<sel, spaces, ctor, tensors, elems, gens>>

SpaceHashed(a) ==
    /\ last' = [op |-> "space_hash", ret |-> DS_hash(spaces, a)]
    /\ UNCHANGED <<sel, spaces, ctor, tensors, elems, gens>>

Indices ==
    {[k |-> "int", i |-> i, e |-> 0] : i \in 0..1}
        \cup {[k |-> "slice", i |-> 0, e |-> 0]}
        \cup {[k |-> "elem", i |-> 0, e |-> e] : e \in ElemIds}

Values ==
    {[k |-> "scalar", v |-> v, e |-> 0] : v \in Val}
        \cup {[k |-> "elem", v |-> 0, e |-> e] : e \in ElemIds}

Next ==
    \/ \E s \in SpaceIds : Zero(s)
    \/ \E s \in SpaceIds : One(s)
    \/ \E e \in ElemIds : Copy(e)
    \/ \E e \in ElemIds, d \in AsDTypes : Astype(e, d)
    \/ \E e \in ElemIds, o \in ElemOthers(Len(elems)) : ElemEq(e, o)
    \/ \E e \in ElemIds, i \in Indices, v \in Values : SetItem(e, i, v)
    \/ \E e \in ElemIds, p2 \in Exps2 : IPow(e, p2)
    \/ \E out \in ElemIds, a \in Scalars, b \in Scalars :
          \E x1 \in ElemsIn(elems[out].space), x2 \in ElemsIn(elems[out].space) :
             Lincomb(elems[out].space, a, x1, b, x2, out)
    \/ \E x1 \in ElemIds : \E x2 \in ElemsIn(elems[x1].space) :
          Dist(elems[x1].space, x1, x2)
    \/ \E x \in ElemIds : Norm(elems[x].space, x)
    \/ \E x1 \in ElemIds : \E x2 \in ElemsIn(elems[x1].space) :
          Inner(elems[x1].space, x1, x2)
    \/ \E out \in ElemIds :
          \E x1 \in ElemsIn(elems[out].space), x2 \in ElemsIn(elems[out].space) :
             Multiply(elems[out].space, x1, x2, out)
    \/ \E out \in ElemIds :
          \E x1 \in ElemsIn(elems[out].space), x2 \in ElemsIn(elems[out].space) :
             Divide(elems[out].space, x1, x2, out)
    \/ \E s \in SpaceIds : FirstExample(s)
    \/ Release
    \/ \E a \in SpaceIds, o \in Others(Len(spaces)) : SpaceCompared(a, o)
    \/ \E a \in SpaceIds : SpaceHashed(a)

Spec == Init /\ [][Next]_vars

(***************************************************************************)
(* GenSpec: the generators of DiscretizedSpace.examples                    *)
(***************************************************************************)

ExamplesCall(s) ==
    /\ Len(gens) < MaxGens
    /\ LET r == DS_examples(spaces, tensors, elems, s)
       IN  /\ Commit(r.res)
           /\ elems' = r.res.elems
           /\ gens' = Append(gens, r.gen)
           /\ last' = [op |-> "examples", self |-> s, err |-> r.res.err,
                       ret |-> Len(gens) + 1, before |-> Len(elems)]
    /\ UNCHANGED sel

Pull(g) ==
    /\ Len(elems) < MaxElems
    /\ LET r == Gen_next(spaces, tensors, elems, gens[g])
       IN  /\ Commit(r.res)
           /\ elems' = r.res.elems
           /\ gens' = [gens EXCEPT ![g] = r.gen]
           /\ last' = [op |-> "pull", self |-> g, err |-> r.res.err,
                       ret |-> r.res.ret, name |-> r.name,
                       before |-> Len(elems)]
    /\ UNCHANGED sel

GenNext ==
    \/ \E s \in SpaceIds : ExamplesCall(s)
    \/ \E g \in 1..Len(gens) : Pull(g)
    \/ Release

GenSpec == Init /\ [][GenNext]_vars

(***************************************************************************)
(* Claims about the elements (Spec) and the generators (GenSpec)           *)
(***************************************************************************)

Filled(t, v) == [tspace |-> t, data |-> [i \in 1..Size(t) |-> v]]

IsAbstract(s) == spaces[s].cls = "DiscretizedSpace"

\* What a successful copy leaves: a new element, in the same space, equal
\* to the original, on a storage handle of its own.
CopyMade ==
    /\ last.err = "none"
    /\ last.ret = last.before + 1
    /\ Len(elems) = last.ret
    /\ elems[last.ret].space = elems[last.self].space
    /\ DSE_eq(spaces, tensors, elems, last.ret,
              [kind |-> "elem", id |-> last.self]).ret = "True"
    /\ elems[last.ret].tensor # elems[last.self].tensor

\* C5 (as claimed): for any element e, e.copy() returns a new element in
\* the same space that equals e and has a storage object of its own.
C5_CopyAlwaysReturns == last.op = "copy" => CopyMade

C5_State ==
    /\ last.op = "copy" =>
          IF IsAbstract(elems[last.self].space)
          THEN /\ last.err = "NotImplementedError"
               /\ Len(elems) = last.before
               /\ Len(tensors) = last.before
          ELSE CopyMade
    /\ \A c \in ElemIds : elems[c].src # 0 =>
          elems[c].tensor # elems[elems[c].src].tensor

\* An indexed assignment or in-place power on a copy leaves the storage of
\* its original as it was, and the other way round.
C5_Step ==
    last'.op \in {"setitem", "ipow"} =>
        \A c \in ElemIds : elems[c].src # 0 =>
            LET o == elems[c].src
            IN  /\ last'.self = c =>
                     tensors'[elems[o].tensor] = tensors[elems[o].tensor]
                /\ last'.self = o =>
                     tensors'[elems[c].tensor] = tensors[elems[c].tensor]

\* C5 (amended): for an element e of a space whose class implements
\* element(), e.copy() returns a new element in the same space that equals
\* e and has a storage handle of its own, and indexed assignments and
\* in-place powers on the copy leave the original's storage unchanged and
\* vice versa; for an element of a space with the abstract base element(),
\* e.copy() raises NotImplementedError and creates nothing.
C5_CopyIndependent == []C5_State /\ [][C5_Step]_vars

\* A copy was made and then changed by an indexed assignment, and now
\* differs from its original.
C5_Witness ==
    /\ last.op = "setitem"
    /\ last.err = "none"
    /\ elems[last.self].src # 0
    /\ tensors[elems[last.self].tensor].data
         # tensors[elems[elems[last.self].src].tensor].data

\* C6: zero() and one() each return a new element whose space is the space
\* called and whose tensor is tspace.zero() / tspace.one(), and never fail,
\* whatever the class of the space.
C6_ZeroOne ==
    last.op \in {"zero", "one"} =>
        /\ last.err = "none"
        /\ last.ret = last.before + 1
        /\ Len(elems) = last.ret
        /\ elems[last.ret].space = last.self
        /\ tensors[elems[last.ret].tensor] =
             Filled(spaces[last.self].tspace, IF last.op = "zero" THEN 0 ELSE 1)

\* zero() returned an element of a space of the abstract base class.
C6_Witness ==
    /\ last.op = "zero"
    /\ IsAbstract(last.self)
    /\ last.err = "none"
    /\ elems[last.ret].space = last.self

\* other is a member of the space of element e.
Member(e, other) ==
    /\ other.kind = "elem"
    /\ DS_eq(spaces, elems[other.id].space,
             [kind |-> "space", id |-> elems[e].space]) = "True"

\* C7: self == other is True exactly when other is a member of self.space
\* and the storage handles compare equal, and False otherwise; for an other
\* that is no member the storage handles are not compared.
C7_ElementEq ==
    last.op = "elem_eq" =>
        /\ last.ret \in {"True", "False"}
        /\ last.ret = "True" <=>
              /\ Member(last.self, last.other)
              /\ tensors[elems[last.self].tensor].data
                   = tensors[elems[last.other.id].tensor].data
              /\ TEq(tensors[elems[last.self].tensor].tspace,
                     tensors[elems[last.other.id].tensor].tspace)
        /\ ~Member(last.self, last.other) => ~last.compared

\* An element was compared with an element of another, equal space object
\* and found equal.
C7_Witness ==
    /\ last.op = "elem_eq"
    /\ last.other.kind = "elem"
    /\ elems[last.other.id].space # elems[last.self].space
    /\ last.ret = "True"

C9_Step ==
    last'.op = "ipow" =>
        LET e == last'.self
            h == elems[e].tensor
            x == tensors[h]
        IN  /\ elems' = elems
            /\ Len(tensors') = Len(tensors)
            /\ \A k \in 1..Len(tensors) : k # h => tensors'[k] = tensors[k]
            /\ IF x.tspace.ipow = "specialized"
               THEN /\ last'.err = "none"
                    /\ last'.ret = e
                    /\ tensors'[h].data = Special_ipow(x.data, last'.p2).data
               ELSE IF IsIntExp(last'.p2)
               THEN /\ last'.err = "none"
                    /\ last'.ret = e
                    /\ tensors'[h].data = Generic_ipow(x.data, last'.p2).data
               ELSE /\ last'.err = "ValueError"
                    /\ tensors'[h] = x

\* C9: self **= p applies the storage handle's own in-place power when the
\* handle specializes it (any exponent), otherwise the generic integer-only
\* in-place power (which rejects a non-integer exponent); when the power
\* is applied the value returned is the element itself.
C9_IPowDelegates == [][C9_Step]_vars

\* An element over a specializing handle was raised to a non-integer power
\* and returned itself.
C9_Witness ==
    /\ last.op = "ipow"
    /\ ~IsIntExp(last.p2)
    /\ last.err = "none"
    /\ last.ret = last.self
    /\ tensors[elems[last.self].tensor].tspace.ipow = "specialized"

\* C10: whatever operations ran on the spaces and their elements, every
\* space holds the fspace and tspace it was constructed with, and its shape
\* and dtype are those of that tspace.
C10_SpacesImmutable ==
    /\ Len(ctor) = Len(spaces)
    /\ \A s \in SpaceIds :
          /\ spaces[s].fspace = ctor[s].fspace
          /\ spaces[s].tspace = ctor[s].tspace
          /\ spaces[s].shape = ctor[s].tspace.shape
          /\ spaces[s].dtype = ctor[s].tspace.dtype
          /\ spaces[s].shape = spaces[s].tspace.shape
          /\ spaces[s].dtype = spaces[s].tspace.dtype

\* An indexed assignment raised on an element that astype had produced in
\* a new space.
C10_Witness ==
    /\ last.op = "setitem"
    /\ last.err = "IndexError"
    /\ elems[last.self].space \in Derived

Min(a, b) == IF a < b THEN a ELSE b

GenIds == 1..Len(gens)

\* The pair the k-th example of the space of generator g is discretized to.
Yield(g, k) ==
    LET ex == Examples(spaces[gens[g].space].fspace)
    IN  [name |-> ex[k].name, space |-> gens[g].space,
         data |-> [i \in 1..Size(spaces[gens[g].space].tspace) |-> ex[k].v]]

\* C8 (as claimed): every pull that finds an fspace example left
\* discretizes it and yields (name, Element).
C8_PullYields ==
    (/\ last.op = "pull"
     /\ gens[last.self].pulls
          <= Len(Examples(spaces[gens[last.self].space].fspace))
     /\ last.err # "StopIteration")
        => /\ last.err = "none"
           /\ last.name = Yield(last.self, gens[last.self].pulls).name

\* C8 (amended): invoking examples discretizes nothing; the k-th pull calls
\* self.element once, on the k-th fspace example, and, when that call
\* returns, yields (name, Element) with the fspace's name; when the call
\* raises (the abstract base element()), the pull raises that error, yields
\* nothing and ends the generator; two generators of one space yield the
\* same pairs in the same order.
C8_Examples ==
    /\ \A g \in GenIds :
          LET n == Len(Examples(spaces[gens[g].space].fspace))
          IN  /\ gens[g].status = "fresh" =>
                    gens[g].pulls = 0 /\ gens[g].calls = 0 /\ gens[g].log = <<>>
              /\ IF IsAbstract(gens[g].space)
                 THEN /\ gens[g].calls = Min(gens[g].pulls, 1)
                      /\ gens[g].log = <<>>
                      /\ gens[g].pulls >= 1 => gens[g].status = "raised"
                 ELSE /\ gens[g].calls = Min(gens[g].pulls, n)
                      /\ Len(gens[g].log) = gens[g].calls
                      /\ \A k \in 1..gens[g].calls : gens[g].log[k] = Yield(g, k)
                      /\ gens[g].pulls > n <=> gens[g].status = "done"
    /\ last.op = "examples" =>
          /\ Len(elems) = last.before
          /\ gens[last.ret].status = "fresh"
    /\ (last.op = "pull" /\ last.err = "none") =>
          /\ last.ret = last.before + 1
          /\ Len(elems) = last.ret
          /\ elems[last.ret].space = gens[last.self].space
          /\ last.name = Yield(last.self, gens[last.self].pulls).name
          /\ tensors[elems[last.ret].tensor].data
               = Yield(last.self, gens[last.self].pulls).data
    /\ \A g \in GenIds, h \in GenIds :
          gens[g].space = gens[h].space =>
             \A k \in 1..Min(Len(gens[g].log), Len(gens[h].log)) :
                gens[g].log[k] = gens[h].log[k]

\* The property was invoked twice on one space and both generators have
\* yielded the same two pairs.
C8_Witness ==
    /\ Len(gens) = 2
    /\ gens[1].space = gens[2].space
    /\ Len(gens[1].log) = 2
    /\ gens[2].log = gens[1].log
    /\ last.op = "pull"

====
